---- MODULE Spec2Model ----
(***************************************************************************)
(* sparrow: the sled-backed table reader (src/src/store/reader/sled.rs).   *)
(*                                                                         *)
(* A SledReader is built from a planned scan range (SeekType) and is then  *)
(* pulled repeatedly by the query engine (Iterator::next).  Each pull      *)
(* walks a sled prefix iterator, harvests up to batch_size rowids and      *)
(* materializes one column per projected field by point lookups.           *)
(*                                                                         *)
(* Byte strings (keys, values, rowids) are sequences of naturals compared  *)
(* byte-wise, as sled and Rust's str ordering do.                          *)
(***************************************************************************)
EXTENDS Integers, Sequences, FiniteSets, TLC

VARIABLES
    sled_db,            \* GlobalContext.engine.sled: the store, key -> value
    meta_cache,         \* GlobalContext.meta_cache: column name -> serial number
    args,               \* the arguments SledReader::new is called with
    reader,             \* the SledReader (NoReader before construction)
    scan_prefix_calls,  \* number of sled_db.scan_prefix calls made so far
    pulls,              \* results of the first MaxPulls calls of next(), in order
    last,               \* kind of the result of the latest call of next()
    tick,               \* parity of the number of calls of next()
    faults,             \* number of store I/O failures that have happened
    panicked,           \* TRUE once a call of next() has panicked
    plan,               \* the LogicalPlan handed to remove_rowid_from_projection
    rewritten,          \* the LogicalPlan it returned (NoPlan before the call)
    other,              \* a second SledReader over the same store
    other_args,         \* the arguments the second reader is built with
    other_pulls,        \* results of the second reader's calls of next()
    mutex,              \* holder of the GlobalContext mutex: 0 (free), 1 or 2
    running,            \* per reader thread: the steps left of its call in progress
    select_items,       \* the Vec<SelectItem> given to projection_has_rowid
    has_rowid,          \* what it returned
    filter,             \* the predicate given to supports_filter_pushdown
    pushdown            \* what it returned

vars == <<sled_db, meta_cache, args, reader, scan_prefix_calls, pulls, last,
          tick, faults, panicked, plan, rewritten, other, other_args,
          other_pulls, mutex, running, select_items, has_rowid, filter,
          pushdown>>

\* the part of the state only the query-front specification moves
front == <<select_items, has_rowid, filter, pushdown>>

\* the part of the state only the two-reader specification moves
pair == <<other, other_args, other_pulls, mutex, running>>

----------------------------------------------------------------------------
(* Bounds of the model *)

\* at most this many entries under scannable keys in the store
MaxEntries == 3
\* batch_size ranges over 0..MaxBatch
MaxBatch == 2
\* the results of the first MaxPulls pulls are recorded
MaxPulls == 3
\* at most this many store I/O failures in one behaviour
MaxFaults == 1
\* logical plans have at most this many nodes on a path from the root
MaxPlanDepth == 3

----------------------------------------------------------------------------
(* Byte strings *)

\* str::starts_with
StartsWith(s, p) ==
    /\ Len(p) <= Len(s)
    /\ \A i \in 1..Len(p) : s[i] = p[i]

\* str::partial_cmp: byte-wise lexicographic order, a proper prefix is Less
RECURSIVE PartialCmp(_, _)
PartialCmp(a, b) ==
    IF a = <<>> /\ b = <<>> THEN "Equal"
    ELSE IF a = <<>> THEN "Less"
    ELSE IF b = <<>> THEN "Greater"
    ELSE IF Head(a) < Head(b) THEN "Less"
    ELSE IF Head(a) > Head(b) THEN "Greater"
    ELSE PartialCmp(Tail(a), Tail(b))

\* String::from_utf8 succeeds (the model's bytes are ASCII or the lone byte 255)
IsUtf8(bytes) == \A i \in 1..Len(bytes) : bytes[i] < 128

\* the keys of S in sled's (byte-wise ascending) key order
RECURSIVE SortKeys(_)
SortKeys(S) ==
    IF S = {} THEN <<>>
    ELSE LET m == CHOOSE k \in S : \A o \in S : PartialCmp(k, o) # "Greater"
         IN  <<m>> \o SortKeys(S \ {m})

----------------------------------------------------------------------------
(* The store and its prefix iterator *)

\* Db::scan_prefix(prefix): the entries whose key starts with prefix, ascending
ScanPrefixItems(db, prefix) ==
    SortKeys({k \in DOMAIN db : StartsWith(k, prefix)})

\* the sled::Iter a scan_prefix call returns: nothing consumed yet
ScanPrefix(prefix) == [prefix |-> prefix, taken |-> 0]

\* Iter::next over the entries items of the iterator's range
IterNextOf(db, it, items) ==
    IF it.taken < Len(items)
    THEN [some |-> TRUE, key |-> items[it.taken + 1],
          value |-> db[items[it.taken + 1]],
          iter |-> [it EXCEPT !.taken = @ + 1]]
    ELSE [some |-> FALSE, key |-> <<>>, value |-> <<>>, iter |-> it]

\* Iter::next: the next entry and the advanced iterator, or none at the end
IterNext(db, it) == IterNextOf(db, it, ScanPrefixItems(db, it.prefix))

\* Db::get(key)
DbGet(db, key) ==
    IF key \in DOMAIN db THEN [some |-> TRUE, value |-> db[key]]
    ELSE [some |-> FALSE, value |-> <<>>]

----------------------------------------------------------------------------
(* Scan keys, schema, key codec *)

\* CreateScanKey::new(key): a scan key with the default (inclusive) interval
CreateScanKey_new(key) == [key |-> key, interval |-> "Closed"]

\* meta_const::COLUMN_ROWID, as a one-token name
COLUMN_ROWID == <<"rowid">>

\* str::contains: sub occurs in s as a contiguous run
Contains(s, sub) ==
    \E i \in 0..(Len(s) - Len(sub)) : \A j \in 1..Len(sub) : s[i + j] = sub[j]

\* meta_cache.get_serial_number(table, column): the column's ordinal, or an error
GetSerialNumber(mc, column_name) ==
    IF column_name \in DOMAIN mc THEN [ok |-> TRUE, value |-> mc[column_name]]
    ELSE [ok |-> FALSE, value |-> 0]

\* util::dbkey::create_record_column(table, column_index, rowid)
CreateRecordColumn(column_index, rowid) == <<0, column_index>> \o rowid

\* the digits of an unsigned decimal text, most significant first
RECURSIVE DigitsValue(_, _)
DigitsValue(bytes, acc) ==
    IF bytes = <<>> THEN acc
    ELSE DigitsValue(Tail(bytes), 10 * acc + (Head(bytes) - 48))

\* lexical::parse::<iN, _>(bytes): optional '-', then one or more digits.
\* (The texts of the model have one or two digits, so no value overflows iN.)
ParseInt(bytes) ==
    LET neg    == bytes # <<>> /\ Head(bytes) = 45
        digits == IF neg THEN Tail(bytes) ELSE bytes
        wf     == digits # <<>> /\ \A i \in 1..Len(digits) : digits[i] \in 48..57
        mag    == IF wf THEN DigitsValue(digits, 0) ELSE 0
    IN  IF wf THEN [ok |-> TRUE, value |-> IF neg THEN 0 - mag ELSE mag]
        ELSE [ok |-> FALSE, value |-> 0]

\* (variant: the projected fields are collected back to front)
ProjectedSchema_Reversed(table_schema, projection) ==
    IF projection.some
    THEN [i \in 1..Len(projection.idx) |->
             table_schema[projection.idx[Len(projection.idx) + 1 - i]]]
    ELSE table_schema

\* SledReader::new, first part: the projected schema
ProjectedSchema(table_schema, projection) ==
    IF projection.some
    THEN [i \in 1..Len(projection.idx) |-> table_schema[projection.idx[i]]]
    ELSE table_schema

----------------------------------------------------------------------------
(* SledReader::next, the scan loop *)

NoFault == [op |-> "none", at |-> 0]

\* (variant: the end rules are looked at before the start rule)
StartSkips_AfterEndRules(self, key) ==
    /\ self.start_scan_key.interval = "Open"
    /\ StartsWith(key, self.start_scan_key.key)
    /\ ~(self.end_scan_key.interval = "Open"
          /\ StartsWith(key, self.end_scan_key.key))
    /\ ~(~StartsWith(key, self.end_scan_key.key)
          /\ PartialCmp(key, self.end_scan_key.key) = "Greater")

\* start boundary: an Open start skips every key that starts with start.key
StartSkips(self, key) ==
    /\ self.start_scan_key.interval = "Open"
    /\ StartsWith(key, self.start_scan_key.key)

\* (variant: an Open end stops only at the end key itself)
EndOpenStops_ExactOnly(self, key) ==
    /\ self.end_scan_key.interval = "Open"
    /\ key = self.end_scan_key.key

\* end boundary, first test: an Open end stops at a key that starts with end.key
EndOpenStops(self, key) ==
    /\ self.end_scan_key.interval = "Open"
    /\ StartsWith(key, self.end_scan_key.key)

\* end boundary, second test: a key without the end prefix stops when Greater
EndCmpStops(self, key) ==
    /\ ~StartsWith(key, self.end_scan_key.key)
    /\ PartialCmp(key, self.end_scan_key.key) = "Greater"

\* (variant: the threshold is tested before the push of the next turn)
BatchFull_OneLate(self, rowids) == Len(rowids) = self.batch_size + 1

\* (variant: the threshold is a lower bound, reached at once for size 0)
BatchFull_AtLeast(self, rowids) == Len(rowids) >= self.batch_size

\* the batch threshold
BatchFull(self, rowids) == Len(rowids) = self.batch_size

\* (variant: an iterator error ends the loop like the end of the range)
IterErrorExit_Swallowed == "break"

\* how the loop is left when the iterator reports an error
IterErrorExit == "ioerr"

LoopExit(exit, rowids, keys, it, adv) ==
    [exit |-> exit, rowids |-> rowids, keys |-> keys, iter |-> it, adv |-> adv]

\* The loop of next(): it is the local iterator, rowids the harvest so far,
\* keys the keys of the entries the harvest came from (kept for the record of
\* the pull only) and adv the number of calls of sled_iter.next() so far.
\* ScanEntry is one turn of the loop, r being what sled_iter.next() returned.
RECURSIVE ScanLoop(_, _, _, _, _, _, _)
RECURSIVE ScanEntry(_, _, _, _, _, _, _, _)
ScanEntry(self, db, it, r, rowids, keys, n, fault) ==
    IF fault.op = "iter" /\ fault.at = n
    THEN LoopExit(IterErrorExit, rowids, keys, it, n)
    ELSE IF ~r.some THEN LoopExit("break", rowids, keys, r.iter, n)
    ELSE IF ~IsUtf8(r.key) THEN LoopExit("panic", rowids, keys, r.iter, n)
    ELSE IF StartSkips(self, r.key)
         THEN ScanLoop(self, db, r.iter, rowids, keys, n, fault)
    ELSE IF EndOpenStops(self, r.key)
         THEN LoopExit("break", rowids, keys, r.iter, n)
    ELSE IF EndCmpStops(self, r.key)
         THEN LoopExit("break", rowids, keys, r.iter, n)
    ELSE IF ~IsUtf8(r.value) THEN LoopExit("panic", rowids, keys, r.iter, n)
    ELSE IF BatchFull(self, Append(rowids, r.value))
         THEN LoopExit("break", Append(rowids, r.value), Append(keys, r.key),
                       r.iter, n)
    ELSE ScanLoop(self, db, r.iter, Append(rowids, r.value),
                  Append(keys, r.key), n, fault)

ScanLoop(self, db, it, rowids, keys, adv, fault) ==
    ScanEntry(self, db, it, IterNext(db, it), rowids, keys, adv + 1, fault)

----------------------------------------------------------------------------
(* SledReader::next, materialization of the harvested rows *)

NullCell == [null |-> TRUE, v |-> <<>>]
ValueCell(v) == [null |-> FALSE, v |-> v]

\* (variant: text that is not valid UTF-8 reads as null)
DecodeCell_InvalidIsNull(data_type, found) ==
    LET ok(c)   == [kind |-> "ok", err |-> "", cell |-> c]
        bad(k, e) == [kind |-> k, err |-> e, cell |-> NullCell]
    IN  IF found.some
        THEN CASE data_type = "Utf8" ->
                    IF IsUtf8(found.value) THEN ok(ValueCell(found.value))
                    ELSE ok(NullCell)
               [] data_type \in {"Int32", "Int64"} ->
                    IF ParseInt(found.value).ok
                    THEN ok(ValueCell(ParseInt(found.value).value))
                    ELSE bad("panic", "")
               [] OTHER -> bad("err", "CastError")
        ELSE IF data_type \in {"Utf8", "Int32", "Int64"} THEN ok(NullCell)
             ELSE bad("err", "CastError")

\* one cell of a non-rowid column from the result of the point lookup
DecodeCell(data_type, found) ==
    LET ok(c)   == [kind |-> "ok", err |-> "", cell |-> c]
        bad(k, e) == [kind |-> k, err |-> e, cell |-> NullCell]
    IN  IF found.some
        THEN CASE data_type = "Utf8" ->
                    IF IsUtf8(found.value) THEN ok(ValueCell(found.value))
                    ELSE bad("err", "CastError")
               [] data_type \in {"Int32", "Int64"} ->
                    IF ParseInt(found.value).ok
                    THEN ok(ValueCell(ParseInt(found.value).value))
                    ELSE bad("panic", "")
               [] OTHER -> bad("err", "CastError")
        ELSE IF data_type \in {"Utf8", "Int32", "Int64"} THEN ok(NullCell)
             ELSE bad("err", "CastError")

ColumnExit(kind, err, cells, gets) ==
    [kind |-> kind, err |-> err, cells |-> cells, gets |-> gets]

\* the rows of one non-rowid column: one point lookup per harvested rowid;
\* gets counts the calls of sled_db.get made so far in this pull.
\* MatCell is one turn of the loop, found being what sled_db.get returned.
RECURSIVE MatColumn(_, _, _, _, _, _, _, _)
RECURSIVE MatCell(_, _, _, _, _, _, _, _, _)
MatCell(db, data_type, column_index, rowids, j, cells, n, fault, c) ==
    IF fault.op = "get" /\ fault.at = n THEN ColumnExit("err", "IoError", <<>>, n)
    ELSE IF c.kind # "ok" THEN ColumnExit(c.kind, c.err, <<>>, n)
    ELSE MatColumn(db, data_type, column_index, rowids, j + 1,
                   Append(cells, c.cell), n, fault)

MatColumn(db, data_type, column_index, rowids, j, cells, gets, fault) ==
    IF j > Len(rowids) THEN ColumnExit("ok", "", cells, gets)
    ELSE MatCell(db, data_type, column_index, rowids, j, cells, gets + 1, fault,
                 DecodeCell(data_type,
                     DbGet(db, CreateRecordColumn(column_index, rowids[j]))))

FieldsExit(kind, err, columns, gets) ==
    [kind |-> kind, err |-> err, columns |-> columns, gets |-> gets]

\* the column of a field whose name contains the rowid column's name
RowidColumn(rowids) == [j \in 1..Len(rowids) |-> ValueCell(rowids[j])]

\* the loop over the projected fields, in schema order.  MatField is one turn
\* for a non-rowid field, sn being what get_serial_number returned, and
\* MatFieldDone continues after the field's column col has been read.
RECURSIVE MatFields(_, _, _, _, _, _, _, _)
RECURSIVE MatField(_, _, _, _, _, _, _, _, _)
RECURSIVE MatFieldDone(_, _, _, _, _, _, _, _)
MatFieldDone(self, db, mc, rowids, i, columns, fault, col) ==
    IF col.kind # "ok" THEN FieldsExit(col.kind, col.err, <<>>, col.gets)
    ELSE MatFields(self, db, mc, rowids, i + 1, Append(columns, col.cells),
                   col.gets, fault)

MatField(self, db, mc, rowids, i, columns, gets, fault, sn) ==
    IF ~sn.ok THEN FieldsExit("err", "SchemaError", <<>>, gets)
    ELSE MatFieldDone(self, db, mc, rowids, i, columns, fault,
             MatColumn(db, self.projected_schema[i].data_type, sn.value,
                       rowids, 1, <<>>, gets, fault))

MatFields(self, db, mc, rowids, i, columns, gets, fault) ==
    IF i > Len(self.projected_schema) THEN FieldsExit("batch", "", columns, gets)
    ELSE IF Contains(self.projected_schema[i].name, COLUMN_ROWID)
    THEN IF self.projected_schema[i].data_type # "Utf8"
         THEN FieldsExit("panic", "", <<>>, gets)
         ELSE MatFields(self, db, mc, rowids, i + 1,
                        Append(columns, RowidColumn(rowids)), gets, fault)
    ELSE MatField(self, db, mc, rowids, i, columns, gets, fault,
                  GetSerialNumber(mc, self.projected_schema[i].name))

----------------------------------------------------------------------------
(* SledReader::new and SledReader::next *)

NoIter == [some |-> FALSE, iter |-> ScanPrefix(<<>>)]
SomeIter(it) == [some |-> TRUE, iter |-> it]

NoReader ==
    [constructed |-> FALSE, table_schema |-> <<>>,
     projection |-> [some |-> FALSE, idx |-> <<>>], projected_schema |-> <<>>,
     batch_size |-> 0, sled_iter |-> NoIter,
     start_scan_key |-> CreateScanKey_new(<<>>),
     end_scan_key |-> CreateScanKey_new(<<>>)]

\* (variant: an iterator over the whole store is opened whatever the plan says)
SledReader_new_AlwaysScans(a) ==
    [self |-> [NoReader EXCEPT
                 !.constructed = TRUE,
                 !.table_schema = a.table_schema,
                 !.projection = a.projection,
                 !.projected_schema = ProjectedSchema(a.table_schema, a.projection),
                 !.batch_size = a.batch_size,
                 !.sled_iter = SomeIter(ScanPrefix(a.seek.start.key)),
                 !.start_scan_key = a.seek.start,
                 !.end_scan_key = a.seek.end],
     scans |-> 1]

\* SledReader::new: the reader built, and the number of scan_prefix calls made.
\* a.seek is what reader_util::get_seek_prefix returned for the filters.
SledReader_new(a) ==
    LET base == [NoReader EXCEPT
                   !.constructed = TRUE,
                   !.table_schema = a.table_schema,
                   !.projection = a.projection,
                   !.projected_schema =
                       ProjectedSchema(a.table_schema, a.projection),
                   !.batch_size = a.batch_size]
    IN  CASE a.seek.type = "NoRecord" -> [self |-> base, scans |-> 0]
          [] a.seek.type = "FullTableScan" ->
                [self |-> [base EXCEPT
                     !.sled_iter = SomeIter(ScanPrefix(a.seek.start.key)),
                     !.start_scan_key = CreateScanKey_new(a.seek.start.key),
                     !.end_scan_key = CreateScanKey_new(a.seek.end.key)],
                 scans |-> 1]
          [] a.seek.type = "UsingTheIndex" ->
                [self |-> [base EXCEPT
                     !.sled_iter = SomeIter(ScanPrefix(a.seek.start.key)),
                     !.start_scan_key = a.seek.start,
                     !.end_scan_key = a.seek.end],
                 scans |-> 1]

\* what self.sled_iter holds when next() returns: next() advances a clone of
\* the field (local) and never assigns the field
SledIterAfterNext(self, local) == self.sled_iter

\* The value next() returns (kind: "batch" for Some(Ok(batch)), "err" for
\* Some(Err(err)), "none" for None, "panic" for a panic) with the record of the
\* pull: the rowids harvested and the keys they came from, the cursor position
\* first the pull started at, the numbers adv and gets of calls of
\* sled_iter.next() and sled_db.get(), and the store failure of the pull.
PullResult(kind, err, rowids, keys, columns, first, adv, gets, fault) ==
    [kind |-> kind, err |-> err, rowids |-> rowids, keys |-> keys,
     columns |-> columns, first |-> first, adv |-> adv, gets |-> gets,
     fault |-> fault]

\* what next() returns after the scan loop lp, with the record of the pull,
\* and the reader's cursor afterwards
Return(self, lp, kind, err, columns, gets, fault) ==
    [result |-> PullResult(kind, err, lp.rowids, lp.keys, columns,
                           self.sled_iter.iter.taken, lp.adv, gets, fault),
     sled_iter |-> SledIterAfterNext(self, lp.iter)]

ReturnBatch(self, lp, m, fault) ==
    Return(self, lp, m.kind, m.err, m.columns, m.gets, fault)

\* next() from the end of the scan loop on
AfterScan(self, db, mc, fault, lp) ==
    IF lp.exit = "ioerr" THEN Return(self, lp, "err", "IoError", <<>>, 0, fault)
    ELSE IF lp.exit = "panic" THEN Return(self, lp, "panic", "", <<>>, 0, fault)
    ELSE IF Len(lp.rowids) < 1 THEN Return(self, lp, "none", "", <<>>, 0, fault)
    ELSE ReturnBatch(self, lp,
                     MatFields(self, db, mc, lp.rowids, 1, <<>>, 0, fault), fault)

\* SledReader::next: the value returned (with the record of what the pull
\* did) and the reader's cursor afterwards
SledReader_next(self, db, mc, fault) ==
    IF ~self.sled_iter.some
    THEN [result |-> PullResult("none", "", <<>>, <<>>, <<>>, 0, 0, 0, fault),
          sled_iter |-> self.sled_iter]
    ELSE AfterScan(self, db, mc, fault,
                   ScanLoop(self, db, self.sled_iter.iter, <<>>, <<>>, 0, fault))

----------------------------------------------------------------------------
(* The steps of a call, in program order: what it does with the GlobalContext
   mutex and with the store *)

RECURSIVE Repeat(_, _)
Repeat(op, n) == IF n <= 0 THEN <<>> ELSE <<op>> \o Repeat(op, n - 1)

\* reader_util::get_seek_prefix is handed a clone of the context handle and
\* plans the range; seen from new() it is one step, made with the mutex free
GetSeekPrefixSteps == <<"get_seek_prefix">>

\* (variant: the guard lives until new() returns)
NewSteps_GuardKept(a) ==
    <<"lock", "engine_sled">> \o GetSeekPrefixSteps
    \o (IF a.seek.type = "NoRecord" THEN <<>> ELSE <<"scan_prefix">>)
    \o <<"unlock">>

\* SledReader::new: the guard of global_context.lock() is a temporary of the
\* statement that fetches the sled handle; the plan is asked for and the
\* prefix scan opened after it
NewSteps(a) ==
    <<"lock", "engine_sled", "unlock">> \o GetSeekPrefixSteps
    \o (IF a.seek.type = "NoRecord" THEN <<>> ELSE <<"scan_prefix">>)

\* the materialization from field i on, gets point lookups having been made:
\* per looked-up field the guard is a temporary of the statement that calls
\* get_serial_number, the point lookups follow it
RECURSIVE FieldSteps(_, _, _, _, _, _, _)
RECURSIVE FieldStepsRead(_, _, _, _, _, _, _, _)
FieldStepsRead(self, db, mc, rowids, i, gets, fault, col) ==
    Repeat("get", col.gets - gets)
    \o (IF col.kind # "ok" THEN <<>>
        ELSE FieldSteps(self, db, mc, rowids, i + 1, col.gets, fault))

FieldSteps(self, db, mc, rowids, i, gets, fault) ==
    IF i > Len(self.projected_schema) THEN <<>>
    ELSE IF Contains(self.projected_schema[i].name, COLUMN_ROWID)
    THEN IF self.projected_schema[i].data_type # "Utf8" THEN <<>>
         ELSE FieldSteps(self, db, mc, rowids, i + 1, gets, fault)
    ELSE <<"lock", "get_serial_number", "unlock">>
         \o (IF ~GetSerialNumber(mc, self.projected_schema[i].name).ok THEN <<>>
             ELSE FieldStepsRead(self, db, mc, rowids, i, gets, fault,
                      MatColumn(db, self.projected_schema[i].data_type,
                          GetSerialNumber(mc, self.projected_schema[i].name).value,
                          rowids, 1, <<>>, gets, fault)))

\* next() after the scan loop lp
StepsAfterScan(self, db, mc, fault, lp) ==
    Repeat("iter_next", lp.adv)
    \o (IF lp.exit \in {"ioerr", "panic"} \/ Len(lp.rowids) < 1 THEN <<>>
        ELSE FieldSteps(self, db, mc, lp.rowids, 1, 0, fault))

\* SledReader::next
NextSteps(self, db, mc, fault) ==
    IF ~self.sled_iter.some THEN <<>>
    ELSE StepsAfterScan(self, db, mc, fault,
                        ScanLoop(self, db, self.sled_iter.iter, <<>>, <<>>, 0, fault))

\* the steps that are calls of the store
StoreIo == {"scan_prefix", "iter_next", "get"}

----------------------------------------------------------------------------
(* core_util::remove_rowid_from_projection *)

\* A LogicalPlan is a record with its variant in kind and the variant's
\* fields; an Expr is [kind, name, alias]: Column(name), Alias(Column(name),
\* alias) or BinaryExpr(Column(name) + 1); a schema is a sequence of fields.
NoPlan == [kind |-> "none"]

\* (variant: every expression that refers to the rowid column is dropped)
DirectRowid_AnyReference(e) == e.name = COLUMN_ROWID

\* Expr::Column(column) with column.name == COLUMN_ROWID
DirectRowid(e) == e.kind = "Column" /\ e.name = COLUMN_ROWID

\* the loop of the Projection arm from index i on: the expressions kept and
\* the schema fields at their positions
RECURSIVE ProjectionLoop(_, _, _, _, _)
ProjectionLoop(expr, schema, i, projected_expr, dffields) ==
    IF i > Len(expr)
    THEN [expr |-> projected_expr, schema |-> dffields]
    ELSE IF DirectRowid(expr[i])
    THEN ProjectionLoop(expr, schema, i + 1, projected_expr, dffields)
    ELSE ProjectionLoop(expr, schema, i + 1, Append(projected_expr, expr[i]),
                        Append(dffields, schema[i]))

\* the Projection arm; input is the rewritten input
ProjectionArm(p, input) ==
    LET kept == ProjectionLoop(p.expr, p.schema, 1, <<>>, <<>>)
    IN  [kind |-> "Projection", expr |-> kept.expr, input |-> input,
         schema |-> kept.schema]

\* the Explain arm; child is the rewritten plan
ExplainArm(p, child) ==
    [kind |-> "Explain", verbose |-> p.verbose, plan |-> child,
     stringified_plans |-> p.stringified_plans, schema |-> p.schema]

\* (variant: the input of a Filter is left as it is)
FilterArm_InputKept(p, input) == p

\* the Filter arm; input is the rewritten input
FilterArm(p, input) ==
    [kind |-> "Filter", predicate |-> p.predicate, input |-> input]

\* the loop of the TableScan arm from index i on
RECURSIVE TableScanLoop(_, _, _)
TableScanLoop(projected_schema, i, dffields) ==
    IF i > Len(projected_schema) THEN dffields
    ELSE IF projected_schema[i].name # COLUMN_ROWID
    THEN TableScanLoop(projected_schema, i + 1,
                       Append(dffields, projected_schema[i]))
    ELSE TableScanLoop(projected_schema, i + 1, dffields)

\* (variant: the scan keeps its schema)
TableScanArm_SchemaKept(p) == p

\* (variant: the first field of the schema goes, whatever its name)
TableScanArm_FirstFieldDropped(p) ==
    [kind |-> "TableScan", table_name |-> p.table_name, source |-> p.source,
     projection |-> p.projection,
     projected_schema |-> Tail(p.projected_schema),
     filters |-> p.filters, limit |-> p.limit]

\* (variant: the projection indices follow the schema)
TableScanArm_ProjectionDropped(p) ==
    [kind |-> "TableScan", table_name |-> p.table_name, source |-> p.source,
     projection |-> [some |-> FALSE, idx |-> <<>>],
     projected_schema |-> TableScanLoop(p.projected_schema, 1, <<>>),
     filters |-> p.filters, limit |-> p.limit]

\* the TableScan arm
TableScanArm(p) ==
    [kind |-> "TableScan", table_name |-> p.table_name, source |-> p.source,
     projection |-> p.projection,
     projected_schema |-> TableScanLoop(p.projected_schema, 1, <<>>),
     filters |-> p.filters, limit |-> p.limit]

\* the Limit arm; input is the rewritten input
LimitArm(p, input) == [kind |-> "Limit", n |-> p.n, input |-> input]

\* (variant: the scan under a Sort is rewritten as well)
OtherArm_ScanUnderSortRewritten(p) ==
    IF p.kind = "Sort" /\ p.input.kind = "TableScan"
    THEN [p EXCEPT !.input = TableScanArm(p.input)]
    ELSE p

\* the default arm: plan.clone()
OtherArm(p) == p

RECURSIVE remove_rowid_from_projection(_)
remove_rowid_from_projection(p) ==
    CASE p.kind = "Projection" ->
            ProjectionArm(p, remove_rowid_from_projection(p.input))
      [] p.kind = "Explain" ->
            ExplainArm(p, remove_rowid_from_projection(p.plan))
      [] p.kind = "Filter" ->
            FilterArm(p, remove_rowid_from_projection(p.input))
      [] p.kind = "TableScan" -> TableScanArm(p)
      [] p.kind = "Limit" ->
            LimitArm(p, remove_rowid_from_projection(p.input))
      [] OTHER -> OtherArm(p)

----------------------------------------------------------------------------
(* core_util::projection_has_rowid and SledTable::supports_filter_pushdown *)

\* Ident's Display: the value, wrapped in its quote character if it has one
IdentToString(ident) ==
    IF ident.quote_style = "" THEN ident.value
    ELSE <<ident.quote_style>> \o ident.value \o <<ident.quote_style>>

\* (variant: an aliased rowid identifier counts as well)
ItemIsRowid_AliasedToo(x) ==
    /\ x.kind \in {"UnnamedExpr", "ExprWithAlias"}
    /\ x.expr.kind = "Identifier"
    /\ IdentToString(x.expr.ident) = COLUMN_ROWID

\* the closure given to any(): one select item
ItemIsRowid(x) ==
    CASE x.kind = "UnnamedExpr" ->
            (CASE x.expr.kind = "Identifier" ->
                     IdentToString(x.expr.ident) = COLUMN_ROWID
               [] OTHER -> FALSE)
      [] x.kind = "ExprWithAlias" -> FALSE
      [] OTHER -> FALSE

projection_has_rowid(projection) ==
    \E i \in 1..Len(projection) : ItemIsRowid(projection[i])

Ok(v) == [ok |-> TRUE, value |-> v]

\* (variant: an equality on rowid is reported as handled exactly)
supports_filter_pushdown_RowidExact(f) ==
    IF f.kind = "BinaryExpr" /\ f.op = "=" /\ f.left = COLUMN_ROWID
    THEN Ok("Exact") ELSE Ok("Inexact")

\* the predicate is not looked at
supports_filter_pushdown(f) == Ok("Inexact")

----------------------------------------------------------------------------
(* Inputs *)

\* keys of scannable entries (index entries or rowid records): key -> rowid
ScanKeyUniverse == {<<1>>, <<1, 1>>, <<1, 1, 1>>, <<1, 2>>, <<2>>}

\* the rowid an entry stores: the suffix of its key
RowidOfKey(k) == <<k[Len(k)]>>

EntrySets == {S \in SUBSET ScanKeyUniverse : Cardinality(S) <= MaxEntries}

\* the table: rowid, a (text, serial number 1), b (integer, serial number 2)
TableSchema ==
    << [name |-> COLUMN_ROWID, data_type |-> "Utf8"],
       [name |-> <<"a">>, data_type |-> "Utf8"],
       [name |-> <<"b">>, data_type |-> "Int32"] >>

MetaCache == (<<"a">> :> 1) @@ (<<"b">> :> 2)

\* column values written for rows: "x" and "y" are 120 and 121, "7" is 55
RecordSets ==
    {
      { [column |-> 1, rowid |-> <<1>>, value |-> <<120>>],
        [column |-> 2, rowid |-> <<1>>, value |-> <<55>>],
        [column |-> 1, rowid |-> <<2>>, value |-> <<121>>] } }

\* the store holding the entries and the column values of the rows they name
MakeDb(entries, recs) ==
    LET rows  == {r \in recs : \E k \in entries : RowidOfKey(k) = r.rowid}
        rkeys == {CreateRecordColumn(r.column, r.rowid) : r \in rows}
    IN  [k \in entries \cup rkeys |->
            IF k \in entries THEN RowidOfKey(k)
            ELSE (CHOOSE r \in rows :
                      CreateRecordColumn(r.column, r.rowid) = k).value]

Intervals == {"Open", "Closed"}
StartKeys == {<<1>>, <<1, 1>>}
EndKeys == {<<1>>, <<1, 1>>, <<2>>}

\* the results reader_util::get_seek_prefix can return
SeekTypes ==
    {[type |-> "NoRecord", start |-> CreateScanKey_new(<<>>),
      end |-> CreateScanKey_new(<<>>)]}
    \cup {[type |-> "FullTableScan", start |-> CreateScanKey_new(s),
           end |-> CreateScanKey_new(e)] : s \in StartKeys, e \in EndKeys}
    \cup {[type |-> "UsingTheIndex", start |-> [key |-> s, interval |-> si],
           end |-> [key |-> e, interval |-> ei]] :
             s \in StartKeys, si \in Intervals, e \in EndKeys, ei \in Intervals}

Projections == {[some |-> FALSE, idx |-> <<>>]}

Faults ==
    {NoFault}
    \cup {[op |-> "iter", at |-> j] : j \in 1..(MaxEntries + 1)}
    \cup {[op |-> "get", at |-> j] : j \in 1..(Len(TableSchema) * MaxEntries)}

\* Tables, stores and projections that reach every branch of the
\* materialization.  The rows are those of the entries [1,1] and [1,2], scanned
\* in full under the prefix [1].
MatEntryKeys == {<<1, 1>>, <<1, 2>>}
MatEntrySets == {S \in SUBSET MatEntryKeys : Cardinality(S) <= MaxEntries}

\* a column whose name contains the rowid column's name without being it
OLD_ROWID == <<"old_", "rowid">>

\* a Float32 column (a type next() does not decode), a column named
\* old_rowid (text, or Float32), and a column d that the meta cache does not
\* know
TableSchemas ==
    { TableSchema,
      << [name |-> COLUMN_ROWID, data_type |-> "Utf8"],
         [name |-> <<"e">>, data_type |-> "Int64"],
         [name |-> <<"c">>, data_type |-> "Float32"] >>,
      << [name |-> COLUMN_ROWID, data_type |-> "Utf8"],
         [name |-> <<"a">>, data_type |-> "Utf8"],
         [name |-> OLD_ROWID, data_type |-> "Utf8"] >>,
      << [name |-> COLUMN_ROWID, data_type |-> "Utf8"],
         [name |-> <<"a">>, data_type |-> "Utf8"],
         [name |-> <<"d">>, data_type |-> "Int64"] >>,
      << [name |-> COLUMN_ROWID, data_type |-> "Utf8"],
         [name |-> OLD_ROWID, data_type |-> "Float32"],
         [name |-> <<"e">>, data_type |-> "Int64"] >> }

MatMetaCache ==
    (<<"a">> :> 1) @@ (<<"b">> :> 2) @@ (<<"c">> :> 3) @@ (OLD_ROWID :> 4)
    @@ (<<"e">> :> 5)

\* values written: all well-formed ("x", "7", "1", "z", "-7", "y"); b of row 1
\* not an integer text ("x"); a of row 2 not UTF-8 (byte 200); nothing written
MatRecordSets ==
    { { [column |-> 1, rowid |-> <<1>>, value |-> <<120>>],
        [column |-> 2, rowid |-> <<1>>, value |-> <<55>>],
        [column |-> 3, rowid |-> <<1>>, value |-> <<49>>],
        [column |-> 4, rowid |-> <<1>>, value |-> <<122>>],
        [column |-> 5, rowid |-> <<1>>, value |-> <<45, 55>>],
        [column |-> 1, rowid |-> <<2>>, value |-> <<121>>] },
      { [column |-> 1, rowid |-> <<1>>, value |-> <<120>>],
        [column |-> 2, rowid |-> <<1>>, value |-> <<120>>],
        [column |-> 1, rowid |-> <<2>>, value |-> <<121>>] },
      { [column |-> 1, rowid |-> <<1>>, value |-> <<120>>],
        [column |-> 2, rowid |-> <<1>>, value |-> <<55>>],
        [column |-> 1, rowid |-> <<2>>, value |-> <<200>>] },
      {} }

MatProjections ==
    {[some |-> FALSE, idx |-> <<>>], [some |-> TRUE, idx |-> <<3, 2>>]}

MatSeek ==
    [type |-> "FullTableScan", start |-> CreateScanKey_new(<<1>>),
     end |-> CreateScanKey_new(<<1>>)]

\* Logical plans.  Fields and expressions over the columns rowid, a and b.
Field(name, data_type) == [name |-> name, data_type |-> data_type]
Column(name) == [kind |-> "Column", name |-> name, alias |-> <<>>]
Alias(name, alias) == [kind |-> "Alias", name |-> name, alias |-> alias]
BinaryExpr(name) == [kind |-> "BinaryExpr", name |-> name, alias |-> <<>>]

\* the field a Projection's schema holds for an expression
ExprField(e) ==
    CASE e.kind = "Column" -> Field(e.name, IF e.name = <<"b">> THEN "Int32" ELSE "Utf8")
      [] e.kind = "Alias" -> Field(e.alias, "Utf8")
      [] OTHER -> Field(e.name \o <<" + 1">>, "Int64")

ExprLists ==
    { << Column(COLUMN_ROWID), Column(<<"a">>) >>,
      << Alias(COLUMN_ROWID, <<"r">>), Column(COLUMN_ROWID),
         BinaryExpr(COLUMN_ROWID), Column(<<"b">>) >>,
      << Column(<<"a">>), Column(<<"b">>) >>,
      << Column(COLUMN_ROWID) >>,
      << Alias(<<"a">>, COLUMN_ROWID), Column(<<"b">>) >> }

\* table scans of t: with and without the rowid field, with and without
\* projection indices, filters and a limit
TableScans ==
    { [kind |-> "TableScan", table_name |-> "t", source |-> "sled",
       projection |-> [some |-> FALSE, idx |-> <<>>],
       projected_schema |-> << Field(COLUMN_ROWID, "Utf8"), Field(<<"a">>, "Utf8"),
                               Field(<<"b">>, "Int32") >>,
       filters |-> <<>>, limit |-> [some |-> FALSE, n |-> 0]],
      [kind |-> "TableScan", table_name |-> "t", source |-> "sled",
       projection |-> [some |-> TRUE, idx |-> <<1, 0>>],
       projected_schema |-> << Field(<<"a">>, "Utf8"), Field(COLUMN_ROWID, "Utf8") >>,
       filters |-> << BinaryExpr(COLUMN_ROWID) >>, limit |-> [some |-> TRUE, n |-> 5]],
      [kind |-> "TableScan", table_name |-> "t", source |-> "sled",
       projection |-> [some |-> TRUE, idx |-> <<1>>],
       projected_schema |-> << Field(<<"a">>, "Utf8") >>,
       filters |-> <<>>, limit |-> [some |-> FALSE, n |-> 0]] }

\* a variant of LogicalPlan without inputs
EmptyRelation == [kind |-> "EmptyRelation", produce_one_row |-> FALSE]

\* the nodes with one input that can stand over the plan input; Sort is a
\* variant that remove_rowid_from_projection has no arm for
Over(input) ==
    { [kind |-> "Projection", expr |-> es, input |-> input,
       schema |-> [i \in 1..Len(es) |-> ExprField(es[i])]] : es \in ExprLists }
    \cup { [kind |-> "Filter", predicate |-> BinaryExpr(COLUMN_ROWID),
            input |-> input],
           [kind |-> "Limit", n |-> 10, input |-> input],
           [kind |-> "Explain", verbose |-> TRUE, plan |-> input,
            stringified_plans |-> << input.kind >>,
            schema |-> << Field(<<"plan_type">>, "Utf8"),
                          Field(<<"plan">>, "Utf8") >>],
           [kind |-> "Sort", expr |-> << Column(<<"a">>) >>, input |-> input] }

\* the plans with at most d nodes on a path
RECURSIVE LogicalPlans(_)
LogicalPlans(d) ==
    IF d <= 1 THEN TableScans \cup {EmptyRelation}
    ELSE LET below == LogicalPlans(d - 1)
         IN  below \cup UNION {Over(input) : input \in below}

\* the arguments of the readers that scan the store side by side
PairArgs ==
    { [table_schema |-> schema, batch_size |-> bs,
       projection |-> [some |-> FALSE, idx |-> <<>>], seek |-> seek] :
        schema \in {TableSchema,
                    << [name |-> COLUMN_ROWID, data_type |-> "Utf8"],
                       [name |-> <<"a">>, data_type |-> "Utf8"],
                       [name |-> <<"d">>, data_type |-> "Int64"] >>},
        bs \in {1},
        seek \in {MatSeek,
                  [type |-> "NoRecord", start |-> CreateScanKey_new(<<>>),
                   end |-> CreateScanKey_new(<<>>)],
                  [type |-> "UsingTheIndex",
                   start |-> [key |-> <<1, 2>>, interval |-> "Closed"],
                   end |-> [key |-> <<2>>, interval |-> "Open"]]} }

PairRecords ==
    { [column |-> 1, rowid |-> <<1>>, value |-> <<120>>],
      [column |-> 2, rowid |-> <<1>>, value |-> <<55>>],
      [column |-> 1, rowid |-> <<2>>, value |-> <<121>>] }

\* select items: identifiers bare, quoted and qualified, an expression over
\* rowid, aliased items either way round, the wildcard
Ident(value, quote_style) == [value |-> value, quote_style |-> quote_style]
Identifier(ident) == [kind |-> "Identifier", ident |-> ident]
UnnamedExpr(expr) == [kind |-> "UnnamedExpr", expr |-> expr]
ExprWithAlias(expr, alias) == [kind |-> "ExprWithAlias", expr |-> expr, alias |-> alias]

SQLExprs ==
    { Identifier(Ident(COLUMN_ROWID, "")),
      Identifier(Ident(COLUMN_ROWID, "\"")),
      Identifier(Ident(<<"a">>, "")),
      [kind |-> "CompoundIdentifier",
       idents |-> <<Ident(<<"t">>, ""), Ident(COLUMN_ROWID, "")>>],
      [kind |-> "BinaryOp", left |-> Identifier(Ident(COLUMN_ROWID, "")),
       op |-> "+", right |-> [kind |-> "Value", value |-> 1]] }

SelectItems ==
    {UnnamedExpr(e) : e \in SQLExprs}
    \cup {ExprWithAlias(Identifier(Ident(COLUMN_ROWID, "")), Ident(<<"r">>, "")),
          ExprWithAlias(Identifier(Ident(<<"a">>, "")), Ident(COLUMN_ROWID, "")),
          [kind |-> "Wildcard"]}

MaxItems == 2

SelectLists ==
    UNION {[1..n -> SelectItems] : n \in 0..MaxItems}

\* predicates offered for push-down
Filters ==
    { [kind |-> "BinaryExpr", left |-> COLUMN_ROWID, op |-> "=", right |-> 1],
      [kind |-> "BinaryExpr", left |-> <<"a">>, op |-> "=", right |-> 1],
      [kind |-> "BinaryExpr", left |-> <<"b">>, op |-> ">", right |-> 1],
      [kind |-> "Literal", value |-> TRUE] }

NoAnswer == [asked |-> FALSE, value |-> FALSE]
Answer(v) == [asked |-> TRUE, value |-> v]
Unasked == [ok |-> FALSE, value |-> ""]

\* nothing asked of the query front
NoFront ==
    /\ select_items = <<>>
    /\ has_rowid = NoAnswer
    /\ filter = [kind |-> "Literal", value |-> TRUE]
    /\ pushdown = Unasked

\* no second reader, no call in progress
NoPair ==
    /\ other = NoReader
    /\ other_args = [table_schema |-> <<>>, batch_size |-> 0,
                     projection |-> [some |-> FALSE, idx |-> <<>>],
                     seek |-> [type |-> "NoRecord",
                               start |-> CreateScanKey_new(<<>>),
                               end |-> CreateScanKey_new(<<>>)]]
    /\ other_pulls = <<>>
    /\ mutex = 0
    /\ running = << <<>>, <<>> >>

----------------------------------------------------------------------------
(* The state machine *)

Init ==
    \E entries \in EntrySets, recs \in RecordSets, seek \in SeekTypes,
       bs \in 0..MaxBatch, proj \in Projections :
        /\ sled_db = MakeDb(entries, recs)
        /\ meta_cache = MetaCache
        /\ args = [table_schema |-> TableSchema, batch_size |-> bs,
                   projection |-> proj, seek |-> seek]
        /\ reader = NoReader
        /\ scan_prefix_calls = 0
        /\ pulls = <<>>
        /\ last = "unpulled"
        /\ tick = 0
        /\ faults = 0
        /\ panicked = FALSE
        /\ plan = NoPlan
        /\ rewritten = NoPlan
        /\ NoFront
        /\ NoPair

\* SledReader::new(global_context, table_schema, ..., batch_size, projection, filters)
Constructed(n) ==
    /\ reader' = n.self
    /\ scan_prefix_calls' = scan_prefix_calls + n.scans

SledReaderNew ==
    /\ ~reader.constructed
    /\ Constructed(SledReader_new(args))
    /\ UNCHANGED <<front, sled_db, meta_cache, args, pulls, last, tick, faults, panicked,
                   plan, rewritten, pair>>

\* the store failure fault happened during the pull that returned p
Fired(fault, p) ==
    \/ fault.op = "iter" /\ p.result.adv >= fault.at
    \/ fault.op = "get" /\ p.result.gets >= fault.at

Pulled(fault, p) ==
    /\ fault.op # "none" => (faults < MaxFaults /\ Fired(fault, p))
    /\ reader' = [reader EXCEPT !.sled_iter = p.sled_iter]
    /\ pulls' = IF Len(pulls) < MaxPulls THEN Append(pulls, p.result) ELSE pulls
    /\ last' = p.result.kind
    /\ tick' = 1 - tick
    /\ faults' = IF fault.op = "none" THEN faults ELSE faults + 1
    /\ panicked' = (p.result.kind = "panic")

\* one call of Iterator::next on the reader; fault is the store failure, if
\* any, that happens during the call
SledReaderNext ==
    /\ reader.constructed
    /\ ~panicked
    /\ \E fault \in Faults :
         Pulled(fault, SledReader_next(reader, sled_db, meta_cache, fault))
    /\ UNCHANGED <<front, sled_db, meta_cache, args, scan_prefix_calls, plan, rewritten,
                   pair>>

Next == SledReaderNew \/ SledReaderNext

Spec == Init /\ [][Next]_vars

\* A step that flips tick is a call of next(), and one is possible exactly when
\* SledReaderNext is enabled (a call without store failure always is).
Pulling == reader.constructed /\ ~panicked /\ tick' = 1 - tick

\* The query engine keeps pulling: weak fairness of the calls of next()
\* (the same condition as WF_vars(SledReaderNext), in a form whose enabling
\* condition is the guard of the call)
FairSpec == Spec /\ WF_tick(Pulling)

\* The reader over the tables and stores of the materialization
MatInit ==
    \E entries \in MatEntrySets, recs \in MatRecordSets,
       schema \in TableSchemas, bs \in 0..MaxBatch, proj \in MatProjections :
        /\ sled_db = MakeDb(entries, recs)
        /\ meta_cache = MatMetaCache
        /\ args = [table_schema |-> schema, batch_size |-> bs,
                   projection |-> proj, seek |-> MatSeek]
        /\ reader = NoReader
        /\ scan_prefix_calls = 0
        /\ pulls = <<>>
        /\ last = "unpulled"
        /\ tick = 0
        /\ faults = 0
        /\ panicked = FALSE
        /\ plan = NoPlan
        /\ rewritten = NoPlan
        /\ NoFront
        /\ NoPair

MatSpec == MatInit /\ [][Next]_vars

\* Two readers over one store, each driven by a thread of its own.  A call
\* is split into its steps: Call takes the call's result from the reader's
\* own state and lays out its steps, Step runs them one at a time.
PairInit ==
    \E a \in PairArgs, b \in PairArgs :
        /\ sled_db = MakeDb(MatEntryKeys, PairRecords)
        /\ meta_cache = MetaCache
        /\ args = a
        /\ other_args = b
        /\ reader = NoReader
        /\ other = NoReader
        /\ scan_prefix_calls = 0
        /\ pulls = <<>>
        /\ other_pulls = <<>>
        /\ last = "unpulled"
        /\ tick = 0
        /\ faults = 0
        /\ panicked = FALSE
        /\ plan = NoPlan
        /\ rewritten = NoPlan
        /\ NoFront
        /\ mutex = 0
        /\ running = << <<>>, <<>> >>

\* (variant: the cursor is shared with the peer reader)
OwnState_SharedCursor(self, peer) == [self EXCEPT !.sled_iter = peer.sled_iter]

\* the state a call of next(&mut self) works on: the reader's own fields
OwnState(self, peer) == self

\* thread 1 calls SledReader::new or next() on reader
CallNew1 ==
    /\ running[1] = <<>>
    /\ ~reader.constructed
    /\ Constructed(SledReader_new(args))
    /\ running' = [running EXCEPT ![1] = NewSteps(args)]
    /\ UNCHANGED <<front, sled_db, meta_cache, args, pulls, last, tick, faults, panicked,
                   plan, rewritten, other, other_args, other_pulls, mutex>>

CallNext1 ==
    /\ running[1] = <<>>
    /\ reader.constructed
    /\ Len(pulls) < MaxPulls
    /\ \E fault \in Faults :
         /\ Pulled(fault, SledReader_next(OwnState(reader, other), sled_db,
                                          meta_cache, fault))
         /\ running' = [running EXCEPT
                           ![1] = NextSteps(OwnState(reader, other), sled_db,
                                            meta_cache, fault)]
    /\ UNCHANGED <<front, sled_db, meta_cache, args, scan_prefix_calls, plan, rewritten,
                   other, other_args, other_pulls, mutex>>

\* thread 2 calls SledReader::new or next() on other
CallNew2 ==
    /\ running[2] = <<>>
    /\ ~other.constructed
    /\ other' = SledReader_new(other_args).self
    /\ scan_prefix_calls' = scan_prefix_calls + SledReader_new(other_args).scans
    /\ running' = [running EXCEPT ![2] = NewSteps(other_args)]
    /\ UNCHANGED <<front, sled_db, meta_cache, args, reader, pulls, last, tick, faults,
                   panicked, plan, rewritten, other_args, other_pulls, mutex>>

OtherPulled(fault, p) ==
    /\ fault.op # "none" => (faults < MaxFaults /\ Fired(fault, p))
    /\ other' = [other EXCEPT !.sled_iter = p.sled_iter]
    /\ other_pulls' = Append(other_pulls, p.result)
    /\ faults' = IF fault.op = "none" THEN faults ELSE faults + 1

CallNext2 ==
    /\ running[2] = <<>>
    /\ other.constructed
    /\ Len(other_pulls) < MaxPulls
    /\ \E fault \in Faults :
         /\ OtherPulled(fault, SledReader_next(OwnState(other, reader), sled_db,
                                               meta_cache, fault))
         /\ running' = [running EXCEPT
                           ![2] = NextSteps(OwnState(other, reader), sled_db,
                                            meta_cache, fault)]
    /\ UNCHANGED <<front, sled_db, meta_cache, args, reader, scan_prefix_calls, pulls,
                   last, tick, panicked, plan, rewritten, other_args, mutex>>

\* thread i runs the next step of its call: lock() waits for the mutex
Step(i) ==
    /\ running[i] # <<>>
    /\ Head(running[i]) = "lock" => mutex = 0
    /\ mutex' = CASE Head(running[i]) = "lock" -> i
                  [] Head(running[i]) = "unlock" -> 0
                  [] OTHER -> mutex
    /\ running' = [running EXCEPT ![i] = Tail(running[i])]
    /\ UNCHANGED <<front, sled_db, meta_cache, args, reader, scan_prefix_calls, pulls,
                   last, tick, faults, panicked, plan, rewritten, other,
                   other_args, other_pulls>>

Step1 == Step(1)
Step2 == Step(2)

PairNext == CallNew1 \/ CallNext1 \/ CallNew2 \/ CallNext2 \/ Step1 \/ Step2

PairSpec == PairInit /\ [][PairNext]_vars

\* The two questions the planner asks: whether a select list names rowid, and
\* how far a predicate can be pushed down; no reader takes part
FrontInit ==
    /\ select_items \in SelectLists
    /\ has_rowid = NoAnswer
    /\ filter \in Filters
    /\ pushdown = Unasked
    /\ plan = NoPlan
    /\ rewritten = NoPlan
    /\ sled_db = MakeDb({}, {})
    /\ meta_cache = MetaCache
    /\ args = [table_schema |-> TableSchema, batch_size |-> 0,
               projection |-> [some |-> FALSE, idx |-> <<>>],
               seek |-> MatSeek]
    /\ reader = NoReader
    /\ scan_prefix_calls = 0
    /\ pulls = <<>>
    /\ last = "unpulled"
    /\ tick = 0
    /\ faults = 0
    /\ panicked = FALSE
    /\ NoPair

\* one call of projection_has_rowid(select_items)
ProjectionHasRowid ==
    /\ ~has_rowid.asked
    /\ has_rowid' = Answer(projection_has_rowid(select_items))
    /\ UNCHANGED <<select_items, filter, pushdown, sled_db, meta_cache, args,
                   reader, scan_prefix_calls, pulls, last, tick, faults,
                   panicked, plan, rewritten, pair>>

\* one call of supports_filter_pushdown(&filter)
SupportsFilterPushdown ==
    /\ ~pushdown.ok
    /\ pushdown' = supports_filter_pushdown(filter)
    /\ UNCHANGED <<select_items, has_rowid, filter, sled_db, meta_cache, args,
                   reader, scan_prefix_calls, pulls, last, tick, faults,
                   panicked, plan, rewritten, pair>>

FrontNext == ProjectionHasRowid \/ SupportsFilterPushdown

FrontSpec == FrontInit /\ [][FrontNext]_vars

\* A logical plan to rewrite; no reader takes part
PlanInit ==
    /\ plan \in LogicalPlans(MaxPlanDepth)
    /\ rewritten = NoPlan
    /\ sled_db = MakeDb({}, {})
    /\ meta_cache = MetaCache
    /\ args = [table_schema |-> TableSchema, batch_size |-> 0,
               projection |-> [some |-> FALSE, idx |-> <<>>],
               seek |-> MatSeek]
    /\ reader = NoReader
    /\ scan_prefix_calls = 0
    /\ pulls = <<>>
    /\ last = "unpulled"
    /\ tick = 0
    /\ faults = 0
    /\ panicked = FALSE
    /\ NoPair
    /\ NoFront

\* one call of remove_rowid_from_projection(&plan)
RemoveRowidFromProjection ==
    /\ rewritten = NoPlan
    /\ plan # NoPlan
    /\ rewritten' = remove_rowid_from_projection(plan)
    /\ UNCHANGED <<front, sled_db, meta_cache, args, reader, scan_prefix_calls, pulls,
                   last, tick, faults, panicked, plan, pair>>

PlanNext == RemoveRowidFromProjection

PlanSpec == PlanInit /\ [][PlanNext]_vars

----------------------------------------------------------------------------
(* What the scan range accepts, stated from the boundary rules *)

Min(a, b) == IF a <= b THEN a ELSE b

\* the entries the reader's iterator ranges over, in key order (none when the
\* reader was built without an iterator)
RangeItems ==
    IF reader.sled_iter.some
    THEN ScanPrefixItems(sled_db, reader.sled_iter.iter.prefix)
    ELSE <<>>

\* an Open start excludes the keys that have start.key as a prefix
ExcludedByStart(key) ==
    /\ reader.start_scan_key.interval = "Open"
    /\ Len(reader.start_scan_key.key) <= Len(key)
    /\ SubSeq(key, 1, Len(reader.start_scan_key.key)) = reader.start_scan_key.key

HasEndPrefix(key) ==
    /\ Len(reader.end_scan_key.key) <= Len(key)
    /\ SubSeq(key, 1, Len(reader.end_scan_key.key)) = reader.end_scan_key.key

\* the end bound is crossed at a key with the end prefix under an Open end, and
\* at a key without the end prefix that is ordered after end.key
BeyondEnd(key) ==
    \/ reader.end_scan_key.interval = "Open" /\ HasEndPrefix(key)
    \/ ~HasEndPrefix(key) /\ PartialCmp(key, reader.end_scan_key.key) = "Greater"

\* the keys of items from position i on that a scan accepts, in order
RECURSIVE AcceptedFrom(_, _)
AcceptedFrom(items, i) ==
    IF i > Len(items) THEN <<>>
    ELSE IF ExcludedByStart(items[i]) THEN AcceptedFrom(items, i + 1)
    ELSE IF BeyondEnd(items[i]) THEN <<>>
    ELSE <<items[i]>> \o AcceptedFrom(items, i + 1)

AcceptedEntries == AcceptedFrom(RangeItems, 1)

\* the keys of the rows returned by the recorded pulls 1..k, in pull order
RECURSIVE ReturnedKeys(_)
ReturnedKeys(k) ==
    IF k = 0 THEN <<>>
    ELSE ReturnedKeys(k - 1)
         \o (IF pulls[k].kind = "batch" THEN pulls[k].keys ELSE <<>>)

IsPrefixOf(s, t) == Len(s) <= Len(t) /\ SubSeq(t, 1, Len(s)) = s

\* number of rows of a returned batch
BatchRows(p) == Len(p.columns[1])

----------------------------------------------------------------------------
(* Claims *)

\* C1: across successive pulls the cursor position is retained: pull k+1
\* starts at the entry following the last entry pull k read, so the rows
\* returned so far are the accepted entries in order, none twice, none dropped.
C1_CursorRetained ==
    faults = 0 =>
        /\ \A k \in 1..(Len(pulls) - 1) :
              pulls[k + 1].first =
                  Min(pulls[k].first + pulls[k].adv, Len(RangeItems))
        /\ IsPrefixOf(ReturnedKeys(Len(pulls)), AcceptedEntries)

\* C2: for batch_size n >= 1 and m accepted entries the pulls yield
\* ceil(m/n) batches, of n rows each except a last one of m - n*(ceil(m/n)-1)
\* rows, and the pull after the last batch yields no batch.
C2_BatchSizing ==
    (reader.constructed /\ reader.batch_size >= 1 /\ faults = 0) =>
        LET n  == reader.batch_size
            m  == Len(AcceptedEntries)
            nb == (m + n - 1) \div n
        IN  \A k \in 1..Len(pulls) :
              /\ k <= nb =>
                    /\ pulls[k].kind = "batch"
                    /\ BatchRows(pulls[k]) = IF k < nb THEN n ELSE m - n * (nb - 1)
              /\ k = nb + 1 => pulls[k].kind = "none"

\* the scannable entries of the store (record keys start with byte 0)
StoredEntries == {k \in DOMAIN sled_db : k[1] # 0}

\* the cell the stored row rowid holds for field: its rowid, the decoded
\* value written under the column's record key, or null when none was written
WrittenCell(field, rowid) ==
    IF field.name = COLUMN_ROWID THEN ValueCell(rowid)
    ELSE LET key == CreateRecordColumn(meta_cache[field.name], rowid)
         IN  IF key \notin DOMAIN sled_db THEN NullCell
             ELSE IF field.data_type = "Utf8" THEN ValueCell(sled_db[key])
             ELSE ValueCell(ParseInt(sled_db[key]).value)

SameCell(c, d) == c.null = d.null /\ (~c.null => c.v = d.v)

\* a single row is stored and a full-table scan projecting all columns covers it
RoundTripCase ==
    /\ reader.constructed
    /\ args.seek.type = "FullTableScan"
    /\ ~reader.projection.some
    /\ Cardinality(StoredEntries) = 1
    /\ Len(AcceptedEntries) = 1
    /\ faults = 0

\* C3: round trip: with a single stored row, a full-table scan projecting all
\* columns returns, over all its pulls, exactly one row, whose cells are the
\* written values and null for the unwritten columns.
C3_RoundTrip ==
    (RoundTripCase /\ Len(pulls) >= 1) =>
        /\ Len(ReturnedKeys(Len(pulls))) = 1
        /\ pulls[1].kind = "batch"
        /\ BatchRows(pulls[1]) = 1
        /\ \A i \in 1..Len(reader.table_schema) :
              SameCell(pulls[1].columns[i][1],
                       WrittenCell(reader.table_schema[i],
                                   sled_db[AcceptedEntries[1]]))

\* C4: every scan of the unchanging store with batch_size >= 1 terminates:
\* unless the store fails, some pull yields no batch.
C4_ScanTerminates ==
    (reader.constructed /\ reader.batch_size >= 1) ~> (last = "none" \/ faults > 0)

\* C5: Exhausted is terminal: once a pull has returned None, no later pull
\* returns a batch.
C5_ExhaustedTerminal ==
    \A k \in 1..Len(pulls) : \A l \in (k + 1)..Len(pulls) :
        pulls[k].kind = "none" => pulls[l].kind # "batch"

\* a scan that was ended by crossing the end boundary (the last entry read
\* made the loop stop) was pulled twice more
C5_Witness ==
    /\ Len(pulls) >= 3
    /\ pulls[1].kind = "none"
    /\ pulls[1].adv >= 1
    /\ pulls[1].first + pulls[1].adv <= Len(RangeItems)
    /\ ~ExcludedByStart(RangeItems[pulls[1].first + pulls[1].adv])
    /\ pulls[2].kind = "none"
    /\ pulls[3].kind = "none"

\* the stored entries in key order that satisfy the start bound when it is
\* Open (ordered after start.key, without its prefix) and are within the end
StrictlyAfterStart ==
    SortKeys({k \in StoredEntries :
                /\ PartialCmp(k, reader.start_scan_key.key) = "Greater"
                /\ ~IsPrefixOf(reader.start_scan_key.key, k)
                /\ ~BeyondEnd(k)})

\* the stored entries in key order that have start.key as a prefix and are
\* within the end
WithStartPrefix ==
    SortKeys({k \in StoredEntries :
                IsPrefixOf(reader.start_scan_key.key, k) /\ ~BeyondEnd(k)})

\* number of rows the first pull harvests when avail entries are to be had
FirstHarvest(avail) ==
    IF reader.batch_size = 0 \/ reader.batch_size > avail THEN avail
    ELSE reader.batch_size

\* no key with the prefix of an Open start contributes a row
C6_OpenStartExcludes ==
    \A k \in 1..Len(pulls) : \A i \in 1..Len(pulls[k].keys) :
        ~ExcludedByStart(pulls[k].keys[i])

\* under an Open start the scan goes on past the excluded entries and returns
\* the entries after them that are within the end bound
C6_OpenStartContinues ==
    (/\ reader.sled_iter.some /\ reader.start_scan_key.interval = "Open"
     /\ faults = 0 /\ Len(pulls) >= 1 /\ StrictlyAfterStart # <<>>) =>
        /\ pulls[1].kind = "batch"
        /\ pulls[1].keys = SubSeq(StrictlyAfterStart, 1,
                                  FirstHarvest(Len(StrictlyAfterStart)))

\* under a Closed start the in-range entries with the start prefix are returned
C6_ClosedStartIncludes ==
    (/\ reader.sled_iter.some /\ reader.start_scan_key.interval = "Closed"
     /\ faults = 0 /\ Len(pulls) >= 1 /\ WithStartPrefix # <<>>) =>
        /\ pulls[1].kind = "batch"
        /\ pulls[1].keys = SubSeq(WithStartPrefix, 1,
                                  FirstHarvest(Len(WithStartPrefix)))

\* C6: start-interval correctness: an Open start {k} excludes the entries with
\* prefix k without ending the scan, so that the in-range entries after them
\* are returned; a Closed start returns the in-range entries with prefix k.
C6_StartInterval ==
    C6_OpenStartExcludes /\ C6_OpenStartContinues /\ C6_ClosedStartIncludes

\* the number of entries sled_iter.next() handed to the pull p
EntriesRead(p) ==
    IF p.fault.op = "iter" THEN p.adv - 1
    ELSE Min(p.adv, Len(RangeItems) - p.first)

InSeq(x, seq) == \E i \in 1..Len(seq) : seq[i] = x

C7_WitnessClosed ==
    /\ Len(pulls) >= 1
    /\ reader.end_scan_key.interval = "Closed"
    /\ pulls[1].kind = "batch"
    /\ pulls[1].adv = 3
    /\ Len(pulls[1].keys) = 2
    /\ reader.batch_size # 2
    /\ ~HasEndPrefix(pulls[1].keys[1])
    /\ HasEndPrefix(pulls[1].keys[2])
    /\ Len(RangeItems) >= 3

NonDecreasing(keys) ==
    \A i \in 1..(Len(keys) - 1) : PartialCmp(keys[i], keys[i + 1]) # "Greater"

\* row i of every column of a batch belongs to the i-th entry the pull accepted
C8_RowsFollowHarvest ==
    \A k \in 1..Len(pulls) :
        pulls[k].kind = "batch" =>
            \A c \in 1..Len(reader.projected_schema) :
                /\ Len(pulls[k].columns[c]) = Len(pulls[k].keys)
                /\ \A i \in 1..Len(pulls[k].keys) :
                      SameCell(pulls[k].columns[c][i],
                               WrittenCell(reader.projected_schema[c],
                                           sled_db[pulls[k].keys[i]]))

\* C8: order preservation: the rows of a scan, over all its batches in pull
\* order, are in non-decreasing order of the keys of the entries they came
\* from, and within a batch row i of every column belongs to the i-th
\* accepted entry.
C8_OrderPreserved ==
    /\ faults = 0 => NonDecreasing(ReturnedKeys(Len(pulls)))
    /\ C8_RowsFollowHarvest

\* C9: a reader built from NoRecord opens no store cursor, and every pull
\* yields no batch without advancing an iterator or looking a key up.
C9_NoRecordNoStoreAccess ==
    (reader.constructed /\ args.seek.type = "NoRecord") =>
        /\ ~reader.sled_iter.some
        /\ scan_prefix_calls = 0
        /\ \A k \in 1..Len(pulls) :
              pulls[k].kind = "none" /\ pulls[k].adv = 0 /\ pulls[k].gets = 0

\* a NoRecord reader over a store that holds rows was pulled twice
C9_Witness ==
    /\ reader.constructed
    /\ args.seek.type = "NoRecord"
    /\ Len(pulls) >= 2
    /\ Cardinality(StoredEntries) >= 2

\* C10: a pull in which advancing the cursor fails returns an I/O error at
\* once: no batch, no point lookup for the rowids already harvested, and no
\* further call of the iterator.
C10_IterErrorImmediate ==
    \A k \in 1..Len(pulls) :
        pulls[k].fault.op = "iter" =>
            /\ pulls[k].kind = "err"
            /\ pulls[k].err = "IoError"
            /\ pulls[k].columns = <<>>
            /\ pulls[k].gets = 0
            /\ pulls[k].adv = pulls[k].fault.at

\* the iterator failed after the pull had already harvested two rowids
C10_Witness ==
    \E k \in 1..Len(pulls) :
        /\ pulls[k].fault.op = "iter"
        /\ pulls[k].fault.at = 3
        /\ Len(pulls[k].rowids) = 2
        /\ pulls[k].kind = "err"

\* C11: an I/O error terminates the scan: after a pull has returned a store
\* I/O error (from advancing the cursor or from a point lookup), no later pull
\* on the reader yields a batch.
C11_IoErrorTerminates ==
    \A k \in 1..Len(pulls) : \A l \in (k + 1)..Len(pulls) :
        (pulls[k].kind = "err" /\ pulls[k].err = "IoError")
            => pulls[l].kind # "batch"

----------------------------------------------------------------------------
(* Claims about the materialization, over the tables of MatSpec *)

\* the data types next() decodes
SupportedTypes == {"Utf8", "Int32", "Int64"}

\* the projected columns other than the rowid column
DataColumns ==
    {c \in 1..Len(reader.projected_schema) :
        reader.projected_schema[c].name # COLUMN_ROWID}

Resolved(c) == reader.projected_schema[c].name \in DOMAIN meta_cache

\* what the store holds under the record key (table, column ordinal, rowid)
StoredValue(c, rowid) ==
    DbGet(sled_db,
          CreateRecordColumn(meta_cache[reader.projected_schema[c].name], rowid))

\* the cells (column c, row i) of the rows the pull p harvested
CellsOf(p) == DataColumns \X (1..Len(p.rowids))

\* the stored text of an integer column is present and is not an integer
BadInteger(p, c, i) ==
    /\ reader.projected_schema[c].data_type \in {"Int32", "Int64"}
    /\ Resolved(c)
    /\ StoredValue(c, p.rowids[i]).some
    /\ ~ParseInt(StoredValue(c, p.rowids[i]).value).ok

\* the stored text of a Utf8 column is present and is not valid UTF-8
BadUtf8(p, c, i) ==
    /\ reader.projected_schema[c].data_type = "Utf8"
    /\ Resolved(c)
    /\ StoredValue(c, p.rowids[i]).some
    /\ ~IsUtf8(StoredValue(c, p.rowids[i]).value)

Unsupported(c) == reader.projected_schema[c].data_type \notin SupportedTypes

\* nothing stands in the way of a batch but absent values
OnlyAbsence(p) ==
    /\ p.fault.op = "none"
    /\ p.rowids # <<>>
    /\ \A c \in DataColumns : Resolved(c) /\ ~Unsupported(c)
    /\ \A x \in CellsOf(p) : ~StoredValue(x[1], p.rowids[x[2]]).some

\* C12: in every batch a cell of a non-rowid column declared Utf8, Int32 or
\* Int64 is null exactly when the store holds no value under the record key
\* of its row and column; absence alone never makes a pull fail.
C12_NullIffAbsent ==
    \A k \in 1..Len(pulls) :
        /\ pulls[k].kind = "batch" =>
              \A x \in CellsOf(pulls[k]) :
                  ~Unsupported(x[1]) =>
                      (pulls[k].columns[x[1]][x[2]].null
                          <=> ~StoredValue(x[1], pulls[k].rowids[x[2]]).some)
        /\ OnlyAbsence(pulls[k]) => pulls[k].kind = "batch"

\* C13: when the text stored for an Int32 or Int64 column of a harvested row
\* is not an integer, the pull returns a decode error as its value: no
\* panic, no batch, no null.
C13_BadIntegerIsError ==
    \A k \in 1..Len(pulls) :
        (/\ pulls[k].fault.op = "none"
         /\ \E x \in CellsOf(pulls[k]) : BadInteger(pulls[k], x[1], x[2]))
            => /\ pulls[k].kind = "err"
               /\ pulls[k].err = "CastError"
               /\ pulls[k].columns = <<>>

\* C14: if a projected non-rowid column has a type other than Utf8, Int32 and
\* Int64, every pull that harvests a row returns a decode error and no batch,
\* whether the row's value is present or absent.
C14_UnsupportedTypeIsError ==
    \A k \in 1..Len(pulls) :
        (pulls[k].rowids # <<>> /\ \E c \in DataColumns : Unsupported(c))
            => /\ pulls[k].kind # "batch"
               /\ pulls[k].columns = <<>>
               /\ pulls[k].fault.op = "none" =>
                     pulls[k].kind = "err" /\ pulls[k].err = "CastError"

C15_WitnessSchema ==
    /\ Len(pulls) >= 1
    /\ pulls[1].fault.op = "none"
    /\ ~reader.projection.some
    /\ ~Resolved(3)
    /\ pulls[1].gets = Len(pulls[1].rowids)
    /\ pulls[1].kind = "err"
    /\ pulls[1].err = "SchemaError"

\* the point lookup of row 2 of the last column failed
C15_WitnessIo ==
    /\ Len(pulls) >= 1
    /\ pulls[1].fault.op = "get"
    /\ pulls[1].fault.at = 4
    /\ Len(pulls[1].rowids) = 2
    /\ pulls[1].err = "IoError"

\* C16: a projected column is filled from the harvested rowid strings,
\* without point lookups, exactly when its name is the rowid column's name;
\* every other projected column costs one point lookup per harvested row
\* and holds what the store holds for the row.
C16_RowidColumnByName ==
    \A k \in 1..Len(pulls) :
        pulls[k].kind = "batch" =>
            /\ pulls[k].gets = Cardinality(DataColumns) * Len(pulls[k].rowids)
            /\ \A c \in 1..Len(reader.projected_schema) :
                  \A i \in 1..Len(pulls[k].rowids) :
                      SameCell(pulls[k].columns[c][i],
                               WrittenCell(reader.projected_schema[c],
                                           pulls[k].rowids[i]))

----------------------------------------------------------------------------
(* Claims about remove_rowid_from_projection, over the plans of PlanSpec *)

\* the input of a plan node, for the variants that have one
HasInput(p) == p.kind \in {"Projection", "Filter", "Limit", "Sort", "Explain"}
InputOf(p) == IF p.kind = "Explain" THEN p.plan ELSE p.input

\* the nodes of a plan: the plan and the nodes of its input
RECURSIVE PlanNodes(_)
PlanNodes(p) ==
    IF HasInput(p) THEN {p} \cup PlanNodes(InputOf(p)) ELSE {p}

NamesRowid(schema) == \E i \in 1..Len(schema) : schema[i].name = COLUMN_ROWID

\* a Projection that projects the rowid column directly or names it in its
\* schema, or a TableScan that names it in its projected schema
ShowsRowid(node) ==
    \/ /\ node.kind = "Projection"
       /\ \/ \E i \in 1..Len(node.expr) :
                 node.expr[i].kind = "Column" /\ node.expr[i].name = COLUMN_ROWID
          \/ NamesRowid(node.schema)
    \/ node.kind = "TableScan" /\ NamesRowid(node.projected_schema)

\* C17: rowid invisibility: after remove_rowid_from_projection no Projection
\* node anywhere in the result projects the rowid column directly or names it
\* in its schema, and no TableScan node anywhere in the result names it in
\* its projected schema.
C17_RowidInvisible ==
    rewritten # NoPlan => \A node \in PlanNodes(rewritten) : ~ShowsRowid(node)

\* the nodes the rewrite reaches: those with only Projection, Filter, Limit
\* and Explain nodes above them
RECURSIVE ReachedNodes(_)
ReachedNodes(p) ==
    IF p.kind \in {"Projection", "Filter", "Limit", "Explain"}
    THEN {p} \cup ReachedNodes(InputOf(p))
    ELSE {p}

\* a Projection with a bare reference to rowid, or with a schema field named
\* rowid at the position of a bare column reference; a TableScan that names
\* rowid in its projected schema
ShowsHiddenRowid(node) ==
    \/ /\ node.kind = "Projection"
       /\ \E i \in 1..Len(node.expr) :
             /\ node.expr[i].kind = "Column"
             /\ node.expr[i].name = COLUMN_ROWID \/ node.schema[i].name = COLUMN_ROWID
    \/ node.kind = "TableScan" /\ NamesRowid(node.projected_schema)

\* C17 as the rewrite has it: rowid is invisible in the nodes the rewrite
\* reaches (a schema names it there only as the alias of a kept expression),
\* and a node of any other kind is returned with everything below it as it was
C17_RowidInvisibleWhereReached ==
    rewritten # NoPlan =>
        /\ \A node \in ReachedNodes(rewritten) : ~ShowsHiddenRowid(node)
        /\ \A node \in ReachedNodes(plan) :
              node.kind \notin {"Projection", "Filter", "Limit", "Explain",
                                "TableScan"}
                  => node \in ReachedNodes(rewritten)

\* a Filter over a Projection of rowid over a scan that names rowid was
\* rewritten: both nodes showed rowid before
C17_Witness ==
    /\ rewritten # NoPlan
    /\ plan.kind = "Filter"
    /\ plan.input.kind = "Projection"
    /\ plan.input.input.kind = "TableScan"
    /\ ShowsRowid(plan.input)
    /\ ShowsRowid(plan.input.input)
    /\ Len(rewritten.input.expr) = 3
    /\ ReachedNodes(rewritten) = PlanNodes(rewritten)

\* the positions of the expressions that are not a bare reference to rowid
KeptPositions(expr) ==
    {i \in 1..Len(expr) :
        ~(expr[i].kind = "Column" /\ expr[i].name = COLUMN_ROWID)}

\* the place position i of the original takes among the kept ones
RankIn(K, i) == Cardinality({j \in K : j <= i})

\* C18: rewriting a Projection removes exactly the expressions that are a
\* bare column reference named rowid and keeps every other expression in
\* order; the schema has, for each kept expression, the field the original
\* schema held at its position; the input is the rewritten input.
C18_ProjectionRewrite ==
    (rewritten # NoPlan /\ plan.kind = "Projection") =>
        LET K == KeptPositions(plan.expr)
        IN  /\ rewritten.kind = "Projection"
            /\ Len(rewritten.expr) = Cardinality(K)
            /\ Len(rewritten.schema) = Cardinality(K)
            /\ \A i \in K :
                  /\ rewritten.expr[RankIn(K, i)] = plan.expr[i]
                  /\ rewritten.schema[RankIn(K, i)] = plan.schema[i]
            /\ rewritten.input = remove_rowid_from_projection(plan.input)

\* a projection of an alias of rowid, rowid itself, an expression over rowid
\* and b was rewritten, its input being a scan whose schema changed
C18_Witness ==
    /\ rewritten # NoPlan
    /\ plan.kind = "Projection"
    /\ Len(plan.expr) = 4
    /\ Len(rewritten.expr) = 3
    /\ rewritten.expr[1].kind = "Alias"
    /\ rewritten.expr[2].kind = "BinaryExpr"
    /\ plan.input.kind = "TableScan"
    /\ rewritten.input # plan.input

\* C19: rewriting a TableScan changes only its projected schema, which is the
\* original one without the fields named rowid, in the original order.
C19_TableScanRewrite ==
    (rewritten # NoPlan /\ plan.kind = "TableScan") =>
        rewritten =
            [plan EXCEPT !.projected_schema =
                SelectSeq(plan.projected_schema,
                          LAMBDA f : f.name # COLUMN_ROWID)]

\* a scan with projection indices, a filter and a limit lost the rowid field
\* of its schema
C19_Witness ==
    /\ rewritten # NoPlan
    /\ plan.kind = "TableScan"
    /\ plan.projection.some
    /\ plan.filters # <<>>
    /\ plan.limit.some
    /\ NamesRowid(plan.projected_schema)
    /\ Len(rewritten.projected_schema) = Len(plan.projected_schema) - 1

\* C20: rewriting a Filter, Limit or Explain node gives a node of the same
\* kind over the rewritten child, with the same predicate, the same n, the
\* same verbose flag, stringified plans and schema.
C20_WrapperRewrite ==
    rewritten # NoPlan =>
        /\ plan.kind = "Filter" =>
              rewritten = [plan EXCEPT
                             !.input = remove_rowid_from_projection(plan.input)]
        /\ plan.kind = "Limit" =>
              rewritten = [plan EXCEPT
                             !.input = remove_rowid_from_projection(plan.input)]
        /\ plan.kind = "Explain" =>
              rewritten = [plan EXCEPT
                             !.plan = remove_rowid_from_projection(plan.plan)]

\* a Filter over a Limit over a scan that names rowid was rewritten
C20_Witness ==
    /\ rewritten # NoPlan
    /\ plan.kind = "Filter"
    /\ plan.input.kind = "Limit"
    /\ plan.input.input.kind = "TableScan"
    /\ rewritten.input.input # plan.input.input
    /\ rewritten.predicate = plan.predicate

\* an Explain over a projection of rowid was rewritten
C20_WitnessExplain ==
    /\ rewritten # NoPlan
    /\ plan.kind = "Explain"
    /\ plan.plan.kind = "Projection"
    /\ rewritten.plan # plan.plan
    /\ rewritten.stringified_plans = plan.stringified_plans

\* the plan node kinds remove_rowid_from_projection has an arm for
RewrittenKinds == {"Projection", "Filter", "TableScan", "Limit", "Explain"}

\* C21: remove_rowid_from_projection is total over the plan node kinds (it
\* returns a plan of the kind it was given), and a node of a kind other than
\* Projection, Filter, TableScan, Limit and Explain is returned identical to
\* the input, its whole subtree included.
C21_OtherKindsPassThrough ==
    rewritten # NoPlan =>
        /\ rewritten.kind = plan.kind
        /\ plan.kind \notin RewrittenKinds => rewritten = plan

\* a Sort over a Projection of rowid over a scan naming rowid came back as
\* it was
C21_Witness ==
    /\ rewritten # NoPlan
    /\ plan.kind = "Sort"
    /\ plan.input.kind = "Projection"
    /\ ShowsRowid(plan.input)
    /\ plan.input.input.kind = "TableScan"
    /\ ShowsRowid(plan.input.input)
    /\ rewritten = plan

\* C30: remove_rowid_from_projection is idempotent: rewriting the rewritten
\* plan again gives the rewritten plan.
C30_Idempotent ==
    rewritten # NoPlan => remove_rowid_from_projection(rewritten) = rewritten

\* the first rewrite changed a projection and the scan under it
C30_Witness ==
    /\ rewritten # NoPlan
    /\ rewritten # plan
    /\ plan.kind = "Limit"
    /\ plan.input.kind = "Projection"
    /\ Len(rewritten.input.expr) < Len(plan.input.expr)
    /\ plan.input.input.kind = "TableScan"
    /\ rewritten.input.input # plan.input.input

\* what a reader built from a yields when it is pulled n times with no other
\* reader around and no store failure
RECURSIVE SoloPulls(_, _, _, _)
RECURSIVE SoloPulled(_, _, _, _, _)
SoloPulled(self, db, mc, n, p) ==
    <<p.result>> \o SoloPulls([self EXCEPT !.sled_iter = p.sled_iter], db, mc, n - 1)

SoloPulls(self, db, mc, n) ==
    IF n = 0 THEN <<>>
    ELSE SoloPulled(self, db, mc, n, SledReader_next(self, db, mc, NoFault))

\* the reader after those n pulls
RECURSIVE SoloReader(_, _, _, _)
SoloReader(self, db, mc, n) ==
    IF n = 0 THEN self
    ELSE SoloReader([self EXCEPT !.sled_iter =
                        SledReader_next(self, db, mc, NoFault).sled_iter],
                    db, mc, n - 1)

\* the steps during which a thread may hold the mutex
LockedSteps == {"engine_sled", "get_serial_number", "unlock"}

\* C22: the GlobalContext mutex is never held across a store I/O call: a
\* thread whose next step opens the prefix scan, advances the cursor or makes
\* a point lookup does not hold the mutex, and a thread that holds it is
\* fetching the store handle, resolving a column ordinal or about to release
\* it.
C22_LockNotHeldAcrossStoreIo ==
    \A i \in {1, 2} :
        /\ (running[i] # <<>> /\ Head(running[i]) \in StoreIo) => mutex # i
        /\ mutex = i => (running[i] # <<>> /\ Head(running[i]) \in LockedSteps)

\* a thread resolves a column ordinal under the mutex while the other is at
\* a point lookup / the cursor / the prefix scan
C22_Witness ==
    /\ mutex = 2
    /\ Head(running[2]) = "get_serial_number"
    /\ running[1] # <<>>
    /\ Head(running[1]) = "get"

C22_WitnessNew ==
    /\ mutex = 1
    /\ Head(running[1]) = "engine_sled"
    /\ running[2] # <<>>
    /\ Head(running[2]) \in {"scan_prefix", "iter_next"}

C25_NoEmptyBatch ==
    \A k \in 1..Len(pulls) :
        /\ Len(pulls[k].rowids) = 0 =>
              /\ pulls[k].kind \in {"none", "err", "panic"}
              /\ pulls[k].columns = <<>>
              /\ (pulls[k].fault.op = "none" /\ pulls[k].kind # "panic") =>
                    pulls[k].kind = "none"
        /\ pulls[k].kind = "batch" =>
              /\ Len(pulls[k].rowids) >= 1
              /\ BatchRows(pulls[k]) >= 1
              /\ reader.batch_size >= 1 =>
                    (/\ Len(pulls[k].rowids) <= reader.batch_size
                     /\ BatchRows(pulls[k]) <= reader.batch_size)
        /\ pulls[k].kind # "batch" => pulls[k].columns = <<>>

\* a pull stopped at the threshold of 2 rows with more entries to accept
C25_Witness ==
    /\ Len(pulls) >= 1
    /\ pulls[1].kind = "batch"
    /\ reader.batch_size = 2
    /\ BatchRows(pulls[1]) = 2
    /\ Len(AcceptedEntries) > 2

\* a pull read entries, accepted none and reported exhaustion
C25_WitnessNone ==
    /\ Len(pulls) >= 1
    /\ pulls[1].kind = "none"
    /\ pulls[1].adv >= 1
    /\ pulls[1].fault.op = "none"
    /\ RangeItems # <<>>
\* C29: with batch_size = 0 the threshold is never reached: a pull that the
\* store does not fail harvests every accepted entry from its starting
\* position to the end of the scan range, and returns them as one batch if
\* there is any.
C29_ZeroBatchSizeIsUnbounded ==
    reader.batch_size = 0 =>
        \A k \in 1..Len(pulls) :
            (pulls[k].fault.op # "iter" /\ pulls[k].kind # "panic") =>
                /\ pulls[k].keys = AcceptedFrom(RangeItems, pulls[k].first + 1)
                /\ (pulls[k].keys # <<>> /\ pulls[k].fault.op = "none") =>
                      /\ pulls[k].kind = "batch"
                      /\ BatchRows(pulls[k]) = Len(pulls[k].keys)

\* one pull returned more rows than any positive batch size of the model
C29_Witness ==
    /\ reader.constructed
    /\ reader.batch_size = 0
    /\ Len(pulls) >= 1
    /\ pulls[1].kind = "batch"
    /\ BatchRows(pulls[1]) > MaxBatch
    /\ pulls[1].keys = AcceptedEntries
\* the harvest and the number of cursor advances of a pull over items from
\* position i on, by the boundary rules in their stated order: start-Open
\* skip, then the end rules, then the batch threshold on accepted entries
RECURSIVE RulesInOrder(_, _, _, _)
RulesInOrder(items, i, n, harvest) ==
    IF i > Len(items) THEN [keys |-> harvest, adv |-> n + 1]
    ELSE IF ExcludedByStart(items[i]) THEN RulesInOrder(items, i + 1, n + 1, harvest)
    ELSE IF BeyondEnd(items[i]) THEN [keys |-> harvest, adv |-> n + 1]
    ELSE IF Len(harvest) + 1 = reader.batch_size
         THEN [keys |-> Append(harvest, items[i]), adv |-> n + 1]
    ELSE RulesInOrder(items, i + 1, n + 1, Append(harvest, items[i]))

\* C26: the per-entry rules apply in the order start-Open skip, end-Open
\* terminate, end lexicographic terminate: an entry the start rule excludes
\* is passed over and the scan goes on, whatever the end rules say of it,
\* and it does not count towards the batch size.  Every pull the store does
\* not fail harvests the entries and advances the cursor as often as the
\* rules in that order give.
C26_BoundaryRuleOrder ==
    \A k \in 1..Len(pulls) :
        (reader.sled_iter.some /\ pulls[k].fault.op # "iter"
         /\ pulls[k].kind # "panic") =>
            /\ pulls[k].keys =
                  RulesInOrder(RangeItems, pulls[k].first + 1, 0, <<>>).keys
            /\ pulls[k].adv =
                  RulesInOrder(RangeItems, pulls[k].first + 1, 0, <<>>).adv
            /\ \A i \in 1..Len(pulls[k].keys) : ~ExcludedByStart(pulls[k].keys[i])

\* with batch size 1, a pull passed over two entries that the start rule
\* excludes and that are also beyond the end, and ran to the end of the range
C26_Witness ==
    /\ reader.constructed
    /\ reader.batch_size = 1
    /\ Len(pulls) >= 1
    /\ pulls[1].fault.op = "none"
    /\ Len(RangeItems) >= 2
    /\ ExcludedByStart(RangeItems[1]) /\ BeyondEnd(RangeItems[1])
    /\ ExcludedByStart(RangeItems[2]) /\ BeyondEnd(RangeItems[2])
    /\ pulls[1].adv = Len(RangeItems) + 1

\* the same over entries ordered after a Closed end
C26_WitnessAfterEnd ==
    /\ reader.constructed
    /\ reader.end_scan_key.interval = "Closed"
    /\ Len(pulls) >= 1
    /\ pulls[1].fault.op = "none"
    /\ Len(RangeItems) >= 1
    /\ ExcludedByStart(RangeItems[1]) /\ BeyondEnd(RangeItems[1])
    /\ pulls[1].adv = Len(RangeItems) + 1
\* the fields a scan was asked for, in the order asked
RequestedFields ==
    IF args.projection.some
    THEN [i \in 1..Len(args.projection.idx) |->
             args.table_schema[args.projection.idx[i]]]
    ELSE args.table_schema

\* a field whose column is read from the store (or is the rowid itself)
ReadAsWritten(field) ==
    field.name = COLUMN_ROWID \/ ~Contains(field.name, COLUMN_ROWID)

\* C27: every batch has one column per requested field, in the order
\* requested (column c holds the values of the c-th requested field), and
\* every column has as many entries as rowids were harvested in the pull.
C27_ColumnsMatchProjection ==
    \A k \in 1..Len(pulls) :
        pulls[k].kind = "batch" =>
            /\ Len(pulls[k].columns) = Len(RequestedFields)
            /\ \A c \in 1..Len(pulls[k].columns) :
                  /\ Len(pulls[k].columns[c]) = Len(pulls[k].rowids)
                  /\ ReadAsWritten(RequestedFields[c]) =>
                        \A j \in 1..Len(pulls[k].rowids) :
                            SameCell(pulls[k].columns[c][j],
                                     WrittenCell(RequestedFields[c],
                                                 pulls[k].rowids[j]))

\* a batch of two rows for the projection [3, 2] of (rowid, a, b): b first
C27_Witness ==
    /\ reader.constructed
    /\ args.projection.some
    /\ args.table_schema = TableSchema
    /\ Len(pulls) >= 1
    /\ pulls[1].kind = "batch"
    /\ Len(pulls[1].rowids) = 2
    /\ Len(pulls[1].columns) = 2
    /\ ~pulls[1].columns[1][1].null /\ pulls[1].columns[1][1].v = 7
    /\ ~pulls[1].columns[2][1].null /\ pulls[1].columns[2][1].v = <<120>>

\* a batch for no projection: all the fields of the table
C27_WitnessAll ==
    /\ reader.constructed
    /\ ~args.projection.some
    /\ Len(pulls) >= 1
    /\ pulls[1].kind = "batch"
    /\ Len(pulls[1].columns) = Len(args.table_schema)
\* C24: supports_filter_pushdown answers Inexact for every predicate, never
\* Exact, Unsupported or an error.
C24_AlwaysInexact ==
    /\ pushdown.ok => pushdown = Ok("Inexact")
    /\ \A f \in Filters : supports_filter_pushdown(f) = Ok("Inexact")

\* asked about an equality on rowid, the one predicate the scan could decide
C24_Witness ==
    /\ pushdown.ok
    /\ filter.kind = "BinaryExpr"
    /\ filter.left = COLUMN_ROWID
    /\ filter.op = "="

\* an unaliased select item that is the bare identifier rowid
BareRowid(x) ==
    /\ x.kind = "UnnamedExpr"
    /\ x.expr.kind = "Identifier"
    /\ x.expr.ident.quote_style = ""
    /\ x.expr.ident.value = COLUMN_ROWID

\* C28: projection_has_rowid is true if and only if some select item is an
\* unaliased bare identifier equal to the rowid column name; aliased rowid
\* items, wildcards, qualified or quoted names and expressions over rowid do
\* not make it true.
C28_HasRowidIffBareIdentifier ==
    has_rowid.asked =>
        (has_rowid.value <=>
            \E i \in 1..Len(select_items) : BareRowid(select_items[i]))

\* false for an aliased rowid next to an expression over rowid
C28_Witness ==
    /\ has_rowid.asked
    /\ ~has_rowid.value
    /\ Len(select_items) = 2
    /\ select_items[1].kind = "ExprWithAlias"
    /\ select_items[1].expr = Identifier(Ident(COLUMN_ROWID, ""))
    /\ select_items[2].kind = "UnnamedExpr"
    /\ select_items[2].expr.kind = "BinaryOp"

\* true for a bare rowid in second place
C28_WitnessTrue ==
    /\ has_rowid.asked
    /\ has_rowid.value
    /\ Len(select_items) = 2
    /\ select_items[1].kind = "Wildcard"
    /\ BareRowid(select_items[2])
====
